---- MODULE Spec2Model ----
(***************************************************************************)
(* Restaurant / event pipeline of scenario1: normalise_data flattens the   *)
(* nested feed into the Restaurants and Events tables; the three           *)
(* downstream stages (restaurant_details_processing, extract_event_data,   *)
(* analyze_rating_thresholds) read those tables.                           *)
(*                                                                         *)
(* Encoding of values.  String cells are TLA+ strings.  A key that the raw *)
(* JSON object does not carry is MISSING, a key with the value null is     *)
(* NULL, a null cell of a DataFrame is NaN; the marker the code substitutes *)
(* is NA.  aggregate_rating is a string in the feed ("3.5"); float() is    *)
(* modelled by FloatOf, in tenths.  A date cell is a record                *)
(* [kind, y, m, d]: kind "ymd" is a string shaped YYYY-MM-DD (the day or   *)
(* month may still be impossible), "text" any other string, "NA" the       *)
(* marker, "absent" a missing key, "ts" a pandas Timestamp and "NaT" the   *)
(* not-a-time value that pd.to_datetime(errors='coerce') produces.         *)
(***************************************************************************)
EXTENDS Integers, Sequences, FiniteSets, TLC

VARIABLES json_file,         \* the raw feed handed to normalise_data
          country_codes_df,  \* rows of Country-Code.xlsx
          stage,             \* "fetched" | "normalised" | "failed"
          raised,            \* the exception normalise_data left with, or ""
          restaurant_df,     \* Restaurants table  [columns, rows]
          events_df,         \* Events table       [columns, rows]
          df_details,        \* result of restaurant_details_processing
          df_month_events,   \* result of extract_event_data
          rating_result,     \* result of analyze_rating_thresholds
          loop,              \* scenario2 main_loop: where the loop stands
          final_df,          \* scenario2: the processed car park table, or None
          fetched_data,      \* scenario2: what the last fetch returned
          fetches,           \* scenario2: number of calls made to the API
          user_input,        \* scenario2: the last line read, stripped
          printed,           \* scenario2: the last message main_loop printed
          search_results,    \* scenario2: result of the last search_carpark
          refresh_mark       \* scenario2: value of fetches at the last refresh

carpark_vars == <<loop, final_df, fetched_data, fetches, user_input, printed,
                  search_results, refresh_mark>>

pipeline_vars == <<json_file, country_codes_df, stage, raised, restaurant_df,
                   events_df, df_details, df_month_events, rating_result>>

vars == <<json_file, country_codes_df, stage, raised, restaurant_df, events_df,
          df_details, df_month_events, rating_result, loop, final_df,
          fetched_data, fetches, user_input, printed, search_results,
          refresh_mark>>

----------------------------------------------------------------------------
(* Bounds of the model *)

MaxPages == 2
MaxRestaurants == 2
MaxRatingRows == 3
MaxEvents == 2
MaxDetailRows == 2
YearSpan == 1

----------------------------------------------------------------------------
(* Values *)

NA == "NA"
MISSING == "<absent>"
\* a key that is present with the JSON value null (None)
NULL == "<null>"
\* the null cell of a DataFrame (NaN, or None in an object column)
NaN == "<NaN>"

Date(y, m, d) == [kind |-> "ymd", y |-> y, m |-> m, d |-> d]
TextDate == [kind |-> "text", y |-> 0, m |-> 0, d |-> 0]
NADate == [kind |-> "NA", y |-> 0, m |-> 0, d |-> 0]
AbsentDate == [kind |-> "absent", y |-> 0, m |-> 0, d |-> 0]
NullDate == [kind |-> "null", y |-> 0, m |-> 0, d |-> 0]
NaT == [kind |-> "NaT", y |-> 0, m |-> 0, d |-> 0]
Timestamp(y, m, d) == [kind |-> "ts", y |-> y, m |-> m, d |-> d]

\* dict.get(key, 'NA')
Get(v) == IF v = MISSING THEN NA ELSE v
GetDate(v) == IF v.kind = "absent" THEN NADate ELSE v

\* the 'photos' value of an event: a list of photo wrappers, each given by its
\* photo.url (MISSING when the wrapper carries none); the key may be absent, and
\* the cell that stands for an absent key is the str 'NA'
Photos(urls) == [kind |-> "list", urls |-> urls]
AbsentPhotos == [kind |-> "absent", urls |-> <<>>]
NullPhotos == [kind |-> "null", urls |-> <<>>]
NAPhotos == [kind |-> "NA", urls |-> <<>>]
GetPhotos(v) == IF v.kind = "absent" THEN NAPhotos ELSE v

\* a raw event object (the value of a wrapper's 'event' key) with its nine keys
EventObject(eid, title, description, s, e, start_time, end_time, category, photos) ==
    [event_id |-> eid, title |-> title, description |-> description,
     start_date |-> s, end_date |-> e, start_time |-> start_time,
     end_time |-> end_time, event_category |-> category, photos |-> photos]

\* an event object that carries every key and one photo
Event(eid, s, e) ==
    EventObject(eid, "Brunch", "All day", s, e, "10:00", "22:00", "1",
                Photos(<<"u1">>))

\* a raw restaurant object (the value of a wrapper's 'restaurant' key).  The
\* sub-fields of its embedded blocks are kept next to its own keys: country_id
\* is location.country_id, aggregate_rating and rating_text are
\* user_rating.aggregate_rating and user_rating.rating_text; has_location and
\* has_user_rating tell whether the object carries the block at all.  is_dict
\* is FALSE for a 'restaurant' value that is no dict, zomato_events_is_list for
\* a 'zomato_events' value that is no list.
Restaurant(id, country, rating, text, has, evs) ==
    [is_dict |-> TRUE, id |-> id,
     has_location |-> TRUE, country_id |-> country,
     has_user_rating |-> TRUE, aggregate_rating |-> rating, rating_text |-> text,
     has_zomato_events |-> has, zomato_events_is_list |-> TRUE,
     zomato_events |-> evs]

\* a page of the feed; restaurants_is_list is FALSE for a 'restaurants' value
\* that is no list
Page(rs) == [restaurants_is_list |-> TRUE, restaurants |-> rs]

\* the feed; is_list is FALSE for a top-level value that is no list
Feed(pages) == [is_list |-> TRUE, pages |-> pages]

SeqsUpTo(S, n) == UNION {[1..k -> S] : k \in 0..n}

Range(s) == {s[i] : i \in DOMAIN s}

----------------------------------------------------------------------------
(* normalise_data *)

RECURSIVE RestaurantsOf(_)
RestaurantsOf(pages) ==
    IF pages = <<>> THEN <<>>
    ELSE Head(pages).restaurants \o RestaurantsOf(Tail(pages))

\* restaurant_list after the two outer loops: every page's restaurants, in order
RestaurantList(json) == RestaurantsOf(json.pages)

\* event_data of one wrapped event of restaurant_data; owner and pos record the
\* loop position (index of the restaurant in restaurant_list, index of the event
\* in its zomato_events list)
EventDataWrong(event, restaurant_data, owner, pos) ==
    [event_id |-> Get(event.event_id),
     title |-> Get(event.title),
     description |-> Get(event.description),
     start_date |-> GetDate(event.start_date),
     end_date |-> GetDate(event.end_date),
     start_time |-> Get(event.start_time),
     end_time |-> Get(event.end_time),
     event_category |-> Get(event.event_category),
     photos |-> GetPhotos(event.photos),
     restaurant_res_id |-> Get(event.event_id),
     owner |-> owner, pos |-> pos]

EventDataNoDefault(event, restaurant_data, owner, pos) ==
    [event_id |-> Get(event.event_id),
     title |-> Get(event.title),
     description |-> event.description,
     start_date |-> GetDate(event.start_date),
     end_date |-> GetDate(event.end_date),
     start_time |-> Get(event.start_time),
     end_time |-> Get(event.end_time),
     event_category |-> Get(event.event_category),
     photos |-> GetPhotos(event.photos),
     restaurant_res_id |-> Get(restaurant_data.id),
     owner |-> owner, pos |-> pos]

EventData(event, restaurant_data, owner, pos) ==
    [event_id |-> Get(event.event_id),
     title |-> Get(event.title),
     description |-> Get(event.description),
     start_date |-> GetDate(event.start_date),
     end_date |-> GetDate(event.end_date),
     start_time |-> Get(event.start_time),
     end_time |-> Get(event.end_time),
     event_category |-> Get(event.event_category),
     photos |-> GetPhotos(event.photos),
     restaurant_res_id |-> Get(restaurant_data.id),
     owner |-> owner, pos |-> pos]

\* the inner loop over zomato_events of one restaurant (.get('zomato_events', []))
EventsOf(restaurant_data, owner) ==
    IF restaurant_data.has_zomato_events
    THEN [k \in DOMAIN restaurant_data.zomato_events |->
            EventData(restaurant_data.zomato_events[k], restaurant_data, owner, k)]
    ELSE <<>>

RECURSIVE EventsListFrom(_, _)
EventsListFrom(rl, i) ==
    IF i > Len(rl) THEN <<>>
    ELSE EventsOf(rl[i], i) \o EventsListFrom(rl, i + 1)

\* events_list when the loops end
EventsList(json) == EventsListFrom(RestaurantList(json), 1)

\* the cell pd.DataFrame gives a record for a key: null when the record lacks
\* the key or carries None
Cell(v) == IF v \in {MISSING, NULL} THEN NaN ELSE v

\* the cells of the embedded columns; Dropped stands in a row for a column the
\* table no longer has
LocationCell(r) ==
    [kind |-> IF r.has_location THEN "dict" ELSE "NaN", country_id |-> r.country_id]
UserRatingCell(r) ==
    [kind |-> IF r.has_user_rating THEN "dict" ELSE "NaN",
     aggregate_rating |-> r.aggregate_rating, rating_text |-> r.rating_text]
LocationDropped == [kind |-> "none", country_id |-> MISSING]
UserRatingDropped ==
    [kind |-> "none", aggregate_rating |-> MISSING, rating_text |-> MISSING]

\* pd.DataFrame(restaurant_list): a column for every key that at least one
\* record carries, a null cell where a record lacks the key; index is the
\* DataFrame index.  The cells of columns the table does not have are null.
DataFrame(rl) ==
    [columns |->
        (IF \E i \in DOMAIN rl : rl[i].id # MISSING THEN {"id"} ELSE {})
        \cup (IF \E i \in DOMAIN rl : rl[i].has_location
              THEN {"location"} ELSE {})
        \cup (IF \E i \in DOMAIN rl : rl[i].has_user_rating
              THEN {"user_rating"} ELSE {})
        \cup (IF \E i \in DOMAIN rl : rl[i].has_zomato_events
              THEN {"zomato_events"} ELSE {}),
     rows |-> [i \in DOMAIN rl |->
        [index |-> i,
         id |-> Cell(rl[i].id),
         location |-> LocationCell(rl[i]),
         user_rating |-> UserRatingCell(rl[i]),
         country_id |-> NaN,
         aggregate_rating |-> NaN,
         rating_text |-> NaN,
         zomato_events_kind |-> IF rl[i].has_zomato_events THEN "list" ELSE "NaN",
         zomato_events |-> IF rl[i].has_zomato_events
                           THEN rl[i].zomato_events ELSE <<>>]]]

\* the sub-field columns pd.json_normalize(column) has: the keys that at least
\* one dict of the column carries
SubColumns(df, column, keys) ==
    {c \in keys : \E k \in DOMAIN df.rows :
        df.rows[k][column].kind = "dict" /\ df.rows[k][column][c] # MISSING}

\* the sub-field cell of one row: a null cell gives a row of nulls
SubCell(block, c) == IF block.kind = "dict" THEN Cell(block[c]) ELSE NaN

ExpandLocationUnguarded(df) ==
    [columns |-> (df.columns \ {"location"})
                 \cup SubColumns(df, "location", {"country_id"}),
     rows |-> [k \in DOMAIN df.rows |->
                 [df.rows[k] EXCEPT !.country_id = SubCell(df.rows[k].location,
                                                          "country_id"),
                                    !.location = LocationDropped]]]

\* lines 66-68: if the table has a location column, its sub-fields become
\* columns and the column is dropped
ExpandLocation(df) ==
    IF "location" \in df.columns
    THEN [columns |-> (df.columns \ {"location"})
                      \cup SubColumns(df, "location", {"country_id"}),
          rows |-> [k \in DOMAIN df.rows |->
                      [df.rows[k] EXCEPT
                          !.country_id = SubCell(df.rows[k].location, "country_id"),
                          !.location = LocationDropped]]]
    ELSE df

\* lines 71-73: the same for user_rating
ExpandUserRating(df) ==
    IF "user_rating" \in df.columns
    THEN [columns |-> (df.columns \ {"user_rating"})
                      \cup SubColumns(df, "user_rating",
                                      {"aggregate_rating", "rating_text"}),
          rows |-> [k \in DOMAIN df.rows |->
                      [df.rows[k] EXCEPT
                          !.aggregate_rating =
                              SubCell(df.rows[k].user_rating, "aggregate_rating"),
                          !.rating_text =
                              SubCell(df.rows[k].user_rating, "rating_text"),
                          !.user_rating = UserRatingDropped]]]
    ELSE df

FillCell(v) == IF v = NaN THEN NA ELSE v
FillBlock(b) == IF b.kind = "NaN" THEN [b EXCEPT !.kind = "NA"] ELSE b

NoFill(df) == df

\* restaurant_df.fillna('NA', inplace=True)
FillNa(df) ==
    [columns |-> df.columns,
     rows |-> [k \in DOMAIN df.rows |->
                 [df.rows[k] EXCEPT
                     !.id = FillCell(@),
                     !.country_id = FillCell(@),
                     !.aggregate_rating = FillCell(@),
                     !.rating_text = FillCell(@),
                     !.location = FillBlock(@),
                     !.user_rating = FillBlock(@),
                     !.zomato_events_kind = IF @ = "NaN" THEN "NA" ELSE @]]]

\* lines 65-79 on the Restaurants table: expand location, expand user_rating,
\* fill the nulls
Polish(df) == FillNa(ExpandUserRating(ExpandLocation(df)))

RestaurantFrame(json) == Polish(DataFrame(RestaurantList(json)))

EventColumns ==
    {"event_id", "title", "description", "start_date", "end_date", "start_time",
     "end_time", "event_category", "photos", "restaurant_res_id"}

\* events_df.fillna('NA', inplace=True): a None that .get returned for a key
\* with the value null becomes the marker
FillNaEvents(el) ==
    [k \in DOMAIN el |->
       [el[k] EXCEPT
           !.event_id = IF @ = NULL THEN NA ELSE @,
           !.title = IF @ = NULL THEN NA ELSE @,
           !.description = IF @ = NULL THEN NA ELSE @,
           !.start_date = IF @.kind = "null" THEN NADate ELSE @,
           !.end_date = IF @.kind = "null" THEN NADate ELSE @,
           !.start_time = IF @ = NULL THEN NA ELSE @,
           !.end_time = IF @ = NULL THEN NA ELSE @,
           !.event_category = IF @ = NULL THEN NA ELSE @,
           !.photos = IF @.kind = "null" THEN NAPhotos ELSE @,
           !.restaurant_res_id = IF @ = NULL THEN NA ELSE @]]

\* pd.DataFrame(events_list) has no column when the list is empty
EventsFrame(json) ==
    LET el == EventsList(json)
    IN [columns |-> IF el = <<>> THEN {} ELSE EventColumns,
        rows |-> FillNaEvents(el)]

\* DataFrame.empty
Empty(df) == df.rows = <<>> \/ df.columns = {}

NoFrame == [columns |-> {}, rows |-> <<>>]
NotRun == [status |-> "none"]

NormaliseRaisesNoDictCheck(json) ==
    IF ~json.is_list THEN "TypeError"
    ELSE IF \/ \E p \in DOMAIN json.pages : ~json.pages[p].restaurants_is_list
            \/ \E i \in DOMAIN RestaurantList(json) :
                  /\ RestaurantList(json)[i].has_zomato_events
                  /\ ~RestaurantList(json)[i].zomato_events_is_list
    THEN "ValueError"
    ELSE ""

\* the exception normalise_data leaves with, "" when it returns: TypeError for a
\* feed that is no list (lines 25-26, 88-89), ValueError for a 'restaurants'
\* value that is no list (32-33), a 'restaurant' value that is no dict (37-38)
\* or a 'zomato_events' value that is no list (44-45, 86-87)
NormaliseRaises(json) ==
    IF ~json.is_list THEN "TypeError"
    ELSE IF \/ \E p \in DOMAIN json.pages : ~json.pages[p].restaurants_is_list
            \/ \E i \in DOMAIN RestaurantList(json) :
                  \/ ~RestaurantList(json)[i].is_dict
                  \/ /\ RestaurantList(json)[i].has_zomato_events
                     /\ ~RestaurantList(json)[i].zomato_events_is_list
    THEN "ValueError"
    ELSE ""

\* restaurant_df, events_df = normalise_data(json_file); an exception ends the
\* script
normalise_data ==
    /\ stage = "fetched"
    /\ IF NormaliseRaises(json_file) # ""
       THEN /\ stage' = "failed"
            /\ raised' = NormaliseRaises(json_file)
            /\ UNCHANGED <<restaurant_df, events_df>>
       ELSE /\ stage' = "normalised"
            /\ raised' = ""
            /\ restaurant_df' = RestaurantFrame(json_file)
            /\ events_df' = EventsFrame(json_file)
    /\ UNCHANGED <<json_file, country_codes_df, df_details, df_month_events,
                   rating_result>>
    /\ UNCHANGED carpark_vars

----------------------------------------------------------------------------
(* analyze_rating_thresholds *)

valid_rating_categories == <<"Poor", "Average", "Good", "Very Good", "Excellent">>

\* the group keys in the order groupby('rating_text') yields them (sorted strings)
GroupKeyOrder == <<"Average", "Excellent", "Good", "Poor", "Very Good">>

NONE == "<None>"

\* the characters of the aggregate_rating strings of the model, as code points
Chars(s) ==
    CASE s = "2.5" -> <<50, 46, 53>>
      [] s = "3.5" -> <<51, 46, 53>>
      [] s = "4.5" -> <<52, 46, 53>>
      [] s = NA -> <<78, 65>>

RECURSIVE SeqLess(_, _)
SeqLess(a, b) ==
    IF a = <<>> THEN b # <<>>
    ELSE IF b = <<>> THEN FALSE
    ELSE IF Head(a) # Head(b) THEN Head(a) < Head(b)
    ELSE SeqLess(Tail(a), Tail(b))

\* Python's < on two str values
StrLess(a, b) == SeqLess(Chars(a), Chars(b))

StrMin(S) == CHOOSE a \in S : \A b \in S : ~StrLess(b, a)
StrMax(S) == CHOOSE a \in S : \A b \in S : ~StrLess(a, b)

\* float(s) succeeds
IsFloat(s) == s \in {"2.5", "3.5", "4.5"}

\* float(s), in tenths
FloatOf(s) ==
    CASE s = "2.5" -> 25
      [] s = "3.5" -> 35
      [] s = "4.5" -> 45

IsValidCategoryTypo(text) == text \in {"Poor", "Average", "Good", "Very good", "Excellent"}

\* Series.isin(valid_rating_categories)
IsValidCategory(text) == text \in Range(valid_rating_categories)

\* valid_ratings_df and invalid_ratings_df
ValidRatings(df) == SelectSeq(df.rows, LAMBDA r : IsValidCategory(r.rating_text))
InvalidRatings(df) == SelectSeq(df.rows, LAMBDA r : ~IsValidCategory(r.rating_text))

\* groupby('rating_text')['aggregate_rating'].agg(['min', 'max']).reset_index():
\* one row per label that occurs, min and max taken on the column's str values
GroupStats(valid) ==
    LET present(t) == \E i \in DOMAIN valid : valid[i].rating_text = t
        cells(t) == {valid[i].aggregate_rating :
                        i \in {j \in DOMAIN valid : valid[j].rating_text = t}}
        keys == SelectSeq(GroupKeyOrder, present)
    IN [k \in DOMAIN keys |->
          [rating_text |-> keys[k], min |-> StrMin(cells(keys[k])),
           max |-> StrMax(cells(keys[k]))]]

\* astype(float) of the max and min columns, and the range column
WithFloats(stats) ==
    [k \in DOMAIN stats |->
       [rating_text |-> stats[k].rating_text,
        min |-> FloatOf(stats[k].min), max |-> FloatOf(stats[k].max),
        range |-> FloatOf(stats[k].max) - FloatOf(stats[k].min)]]

CategoryCode(text) ==
    CHOOSE c \in DOMAIN valid_rating_categories : valid_rating_categories[c] = text

RECURSIVE InsertByCategory(_, _)
InsertByCategory(row, sorted) ==
    IF sorted = <<>> THEN <<row>>
    ELSE IF CategoryCode(row.rating_text) < CategoryCode(Head(sorted).rating_text)
         THEN <<row>> \o sorted
         ELSE <<Head(sorted)>> \o InsertByCategory(row, Tail(sorted))

RECURSIVE SortRec(_)
SortRec(stats) ==
    IF stats = <<>> THEN <<>>
    ELSE InsertByCategory(Head(stats), SortRec(Tail(stats)))

Unsorted(stats) == stats

\* pd.Categorical(..., categories=valid_rating_categories, ordered=True) and
\* sort_values('rating_text')
SortByCategory(stats) == SortRec(stats)

RECURSIVE MapLastMatch(_, _, _)
MapLastMatch(thresholds, rating, found) ==
    IF thresholds = <<>> THEN found
    ELSE MapLastMatch(Tail(thresholds), rating,
            IF Head(thresholds).min <= rating /\ rating <= Head(thresholds).max
            THEN Head(thresholds).rating_text ELSE found)

MapRatingLast(thresholds, rating) == MapLastMatch(thresholds, rating, NONE)

RECURSIVE MapRatingExclusive(_, _)
MapRatingExclusive(thresholds, rating) ==
    IF thresholds = <<>> THEN NONE
    ELSE IF Head(thresholds).min < rating /\ rating < Head(thresholds).max
         THEN Head(thresholds).rating_text
         ELSE MapRatingExclusive(Tail(thresholds), rating)

RECURSIVE FirstMatch(_, _)
\* the loop over rating_thresholds.items(), whose order is the row order of the
\* sorted category_stats: the first range that contains the rating
FirstMatch(thresholds, rating) ==
    IF thresholds = <<>> THEN NONE
    ELSE IF Head(thresholds).min <= rating /\ rating <= Head(thresholds).max
         THEN Head(thresholds).rating_text
         ELSE FirstMatch(Tail(thresholds), rating)

\* map_rating_to_text, applied to float(aggregate_rating)
map_rating_to_text(thresholds, rating) == FirstMatch(thresholds, rating)

\* the rating analysis raises: a required column is absent, or a min, a max or
\* an aggregate_rating of a non-canonical record is not a number
RatingRaises(df) ==
    \/ "rating_text" \notin df.columns
    \/ "aggregate_rating" \notin df.columns
    \/ LET stats == GroupStats(ValidRatings(df))
       IN \E k \in DOMAIN stats : ~IsFloat(stats[k].max) \/ ~IsFloat(stats[k].min)
    \/ LET inv == InvalidRatings(df)
       IN \E i \in DOMAIN inv : ~IsFloat(inv[i].aggregate_rating)

RatingOutput(df) ==
    LET category_stats == SortByCategory(WithFloats(GroupStats(ValidRatings(df))))
        inv == InvalidRatings(df)
        invalid_ratings_df ==
            [i \in DOMAIN inv |->
               [index |-> inv[i].index,
                rating_text |-> inv[i].rating_text,
                aggregate_rating |-> inv[i].aggregate_rating,
                mapped_rating_text |->
                    map_rating_to_text(category_stats, FloatOf(inv[i].aggregate_rating))]]
    IN [status |-> "ok",
        category_stats |-> category_stats,
        mapped |-> SelectSeq(invalid_ratings_df,
                             LAMBDA r : r.mapped_rating_text # NONE),
        unmapped |-> SelectSeq(invalid_ratings_df,
                               LAMBDA r : r.mapped_rating_text = NONE)]

RatingError ==
    [status |-> "error", category_stats |-> <<>>, mapped |-> <<>>, unmapped |-> <<>>]

analyze_rating_thresholds ==
    /\ stage = "normalised"
    /\ rating_result' = IF RatingRaises(restaurant_df) THEN RatingError
                        ELSE RatingOutput(restaurant_df)
    /\ UNCHANGED <<json_file, country_codes_df, stage, raised, restaurant_df, events_df,
                   df_details, df_month_events>>
    /\ UNCHANGED carpark_vars

----------------------------------------------------------------------------
(* filter_events_by_month and extract_event_data *)

IsLeap(y) == (y % 4 = 0 /\ y % 100 # 0) \/ y % 400 = 0

DaysInMonth(y, m) ==
    IF m \in {4, 6, 9, 11} THEN 30
    ELSE IF m = 2 THEN (IF IsLeap(y) THEN 29 ELSE 28)
    ELSE 31

RECURSIVE DaysBeforeMonth(_, _)
DaysBeforeMonth(y, m) ==
    IF m <= 1 THEN 0 ELSE DaysBeforeMonth(y, m - 1) + DaysInMonth(y, m - 1)

DaysBeforeYear(y) ==
    (y - 1) * 365 + ((y - 1) \div 4) - ((y - 1) \div 100) + ((y - 1) \div 400)

\* the day number of datetime(y, m, d), as date.toordinal() counts it
ToOrdinal(y, m, d) == DaysBeforeYear(y) + DaysBeforeMonth(y, m) + d

\* month_start = datetime(year, month, 1)
MonthStart(year, month) == ToOrdinal(year, month, 1)

MonthEndSameYear(year, month) ==
    IF month = 12 THEN ToOrdinal(year, 1, 1) - 1
    ELSE ToOrdinal(year, month + 1, 1) - 1

\* month_end = first day of the next month - timedelta(days=1)
MonthEnd(year, month) ==
    IF month = 12 THEN ToOrdinal(year + 1, 1, 1) - 1
    ELSE ToOrdinal(year, month + 1, 1) - 1

\* pd.to_datetime(cell, errors='coerce') of one cell
ToDatetime(c) ==
    IF c.kind = "ts" THEN c
    ELSE IF /\ c.kind = "ymd"
            /\ c.m \in 1..12
            /\ c.d \in 1..DaysInMonth(c.y, c.m)
         THEN Timestamp(c.y, c.m, c.d)
         ELSE NaT

OnOrBeforeNaTFirst(c, day) ==
    c.kind = "NaT" \/ ToOrdinal(c.y, c.m, c.d) <= day

\* column <= month_end and column >= month_start: a comparison with NaT is False
OnOrBefore(c, day) == c.kind = "ts" /\ ToOrdinal(c.y, c.m, c.d) <= day
OnOrAfter(c, day) == c.kind = "ts" /\ ToOrdinal(c.y, c.m, c.d) >= day

\* events_df after the two column assignments of filter_events_by_month
DatesConverted(df) ==
    [columns |-> df.columns,
     rows |-> [k \in DOMAIN df.rows |->
                 [df.rows[k] EXCEPT !.start_date = ToDatetime(@),
                                    !.end_date = ToDatetime(@)]]]

\* the rows filter_events_by_month returns, each under its index in events_df
filter_events_by_month(df, year, month) ==
    LET conv == DatesConverted(df)
        idx == [k \in DOMAIN conv.rows |-> [index |-> k, row |-> conv.rows[k]]]
    IN SelectSeq(idx, LAMBDA e :
           /\ OnOrBefore(e.row.start_date, MonthEnd(year, month))
           /\ OnOrAfter(e.row.end_date, MonthStart(year, month)))

RECURSIVE JoinComma(_)
\* ', '.join(photo_urls): the pieces of the joined string, separators included
JoinComma(photo_urls) ==
    IF photo_urls = <<>> THEN <<>>
    ELSE IF Len(photo_urls) = 1 THEN photo_urls
    ELSE <<Head(photo_urls), ", ">> \o JoinComma(Tail(photo_urls))

\* get_event_photo_urls(photo_list).  A list that is not empty gives the joined
\* urls and an empty one 'NA'; the str 'NA' is truthy and not empty, the
\* comprehension calls .get on its characters, and the AttributeError leaves as
\* ValueError
get_event_photo_urls(photo_list) ==
    IF photo_list.kind = "list" /\ photo_list.urls # <<>>
    THEN [raised |-> FALSE,
          value |-> JoinComma([k \in DOMAIN photo_list.urls |->
                                  Get(photo_list.urls[k])])]
    ELSE IF photo_list.kind = "list"
    THEN [raised |-> FALSE, value |-> <<NA>>]
    ELSE [raised |-> TRUE, value |-> <<>>]

\* the rows of final_df (restaurant_name, a lookup of the name by id, is left out)
FinalEvents(month_events) ==
    [k \in DOMAIN month_events |->
       [index |-> month_events[k].index,
        event_id |-> month_events[k].row.event_id,
        restaurant_res_id |-> month_events[k].row.restaurant_res_id,
        photo_url |-> get_event_photo_urls(month_events[k].row.photos).value,
        title |-> month_events[k].row.title,
        start_date |-> month_events[k].row.start_date,
        end_date |-> month_events[k].row.end_date]]

EventsResult(status, message, year, month, filtered, month_events, rows) ==
    [status |-> status, message |-> message, year |-> year, month |-> month,
     filtered |-> filtered, month_events |-> month_events, rows |-> rows]

\* the texts of the ValueErrors extract_event_data raises and then prints
EmptyEventsMessage == "The events DataFrame is empty."
EmptyRestaurantsMessage == "The restaurant DataFrame is empty."

NoEventsMessageAsEmpty == "The events DataFrame is empty."

NoEventsMessage == "No events found for the specified month and year."

\* what the caller receives: final_df, or None from either except clause
ReturnValue(result) ==
    IF result.status = "ok" THEN [kind |-> "DataFrame", rows |-> result.rows]
    ELSE [kind |-> "None", rows |-> <<>>]

\* what the except clause prints
Printed(result) ==
    IF result.status = "error"
    THEN <<"Error during data extraction: ", result.message>>
    ELSE <<>>

\* the outcome of extract_event_data(events_df, restaurant_df, year, month,
\* output_path) on the tables ev_df and rest_df; filtered tells whether
\* filter_events_by_month was reached
ExtractResult(ev_df, rest_df, year, month) ==
    IF Empty(ev_df)
    THEN EventsResult("error", EmptyEventsMessage, year, month, FALSE, <<>>, <<>>)
    ELSE IF Empty(rest_df)
    THEN EventsResult("error", EmptyRestaurantsMessage, year, month, FALSE,
                      <<>>, <<>>)
    ELSE LET month_events == filter_events_by_month(ev_df, year, month)
         IN IF month_events = <<>>
            THEN EventsResult("error", NoEventsMessage,
                              year, month, TRUE, <<>>, <<>>)
            ELSE IF \E k \in DOMAIN month_events :
                       get_event_photo_urls(month_events[k].row.photos).raised
            THEN EventsResult("error",
                     "Error processing photo list: 'str' object has no attribute 'get'",
                     year, month, TRUE, month_events, <<>>)
            ELSE IF "id" \notin rest_df.columns
            THEN EventsResult("error", "'id'", year, month, TRUE,
                              month_events, <<>>)
            ELSE EventsResult("ok", "", year, month, TRUE, month_events,
                              FinalEvents(month_events))

\* df_month_events = extract_event_data(df_events, df_normal, year, month,
\* 'output/'); filter_events_by_month, once reached, assigns the converted date
\* columns to the caller's Events table
extract_event_data(year, month) ==
    /\ stage = "normalised"
    /\ df_month_events' = ExtractResult(events_df, restaurant_df, year, month)
    /\ events_df' = IF Empty(events_df) \/ Empty(restaurant_df) THEN events_df
                    ELSE DatesConverted(events_df)
    /\ UNCHANGED <<json_file, country_codes_df, stage, raised, restaurant_df,
                   df_details, rating_result>>
    /\ UNCHANGED carpark_vars

\* the years and months the caller passes (st.number_input)
Years == {2019 + k : k \in 0..YearSpan}
Months == 1..12

----------------------------------------------------------------------------
(* restaurant_details_processing *)

\* country_code_array: the 'Country Code' column as a list
CountryCodeArray(ref) == [k \in DOMAIN ref |-> ref[k].code]

\* country_mapping: set_index('Country Code')['Country'].to_dict(); of two rows
\* with one code the later one stays
CountryMapping(ref) ==
    [c \in Range(CountryCodeArray(ref)) |->
        ref[CHOOSE k \in DOMAIN ref :
              /\ ref[k].code = c
              /\ \A j \in DOMAIN ref : ref[j].code = c => j <= k].name]

FilterAllCountries(df, country_code_array) == df.rows

\* df[df['country_id'].isin(country_code_array)]
filter_restaurants_by_country(df, country_code_array) ==
    SelectSeq(df.rows, LAMBDA r : r.country_id \in Range(country_code_array))

\* Python's < on the str values of two date cells: a YYYY-MM-DD string orders by
\* year, month and day and, starting with a digit, before 'NA', which orders
\* before the lower-case text
DateStrLess(a, b) ==
    IF a.kind = "ymd" /\ b.kind = "ymd"
    THEN \/ a.y < b.y
         \/ a.y = b.y /\ a.m < b.m
         \/ a.y = b.y /\ a.m = b.m /\ a.d < b.d
    ELSE \/ a.kind = "ymd" /\ b.kind # "ymd"
         \/ a.kind = "NA" /\ b.kind = "text"

ColumnMax(cells) ==
    IF \A c \in cells : c.kind \in {"ts", "NaT"}
    THEN IF \A c \in cells : c.kind = "NaT" THEN NaT
         ELSE CHOOSE c \in cells :
                 /\ c.kind = "ts"
                 /\ \A o \in cells : o.kind = "ts" =>
                       ToOrdinal(o.y, o.m, o.d) <= ToOrdinal(c.y, c.m, c.d)
    ELSE CHOOSE c \in cells : \A o \in cells : ~DateStrLess(c, o)

\* Series.min() of a start_date column: on str cells the least string, on
\* datetime cells the earliest Timestamp, NaT skipped (NaT when all are NaT)
ColumnMin(cells) ==
    IF \A c \in cells : c.kind \in {"ts", "NaT"}
    THEN IF \A c \in cells : c.kind = "NaT" THEN NaT
         ELSE CHOOSE c \in cells :
                 /\ c.kind = "ts"
                 /\ \A o \in cells : o.kind = "ts" =>
                       ToOrdinal(c.y, c.m, c.d) <= ToOrdinal(o.y, o.m, o.d)
    ELSE CHOOSE c \in cells : \A o \in cells : ~DateStrLess(o, c)

\* get_earliest_event_date(row)
get_earliest_event_date(row, event_df) ==
    IF row.zomato_events_kind = "list" /\ Len(row.zomato_events) > 0
    THEN LET events == SelectSeq(event_df.rows,
                                 LAMBDA e : e.restaurant_res_id = row.id)
         IN IF events # <<>>
            THEN ColumnMin({events[k].start_date : k \in DOMAIN events})
            ELSE NADate
    ELSE NADate

\* df['country_id'].map(country_mapping) of one cell: NaN for a code that the
\* mapping does not hold
CountryName(code, country_mapping) ==
    IF code \in DOMAIN country_mapping THEN country_mapping[code] ELSE NONE

\* the rows of df_selected: the kept restaurants with their country name, their
\* rating as a float and their event date (df.apply on a frame without rows
\* yields an empty column)
SelectedRows(rows, country_mapping, event_df) ==
    [k \in DOMAIN rows |->
       [index |-> rows[k].index,
        id |-> rows[k].id,
        country |-> CountryName(rows[k].country_id, country_mapping),
        rating |-> FloatOf(rows[k].aggregate_rating),
        event_date |-> get_earliest_event_date(rows[k], event_df)]]

DetailsError(message) == [status |-> "error", message |-> message, rows |-> <<>>]

\* the outcome of restaurant_details_processing(df, event_df,
\* country_code_file_path, output_path) on the tables df and event_df and the
\* reference rows ref
DetailsResult(df, event_df, ref) ==
    IF Empty(df)
    THEN DetailsError("The restaurant DataFrame is empty.")
    ELSE IF Empty(event_df)
    THEN DetailsError("The event DataFrame is empty.")
    ELSE IF "country_id" \notin df.columns
    THEN DetailsError("The 'country_id' column is missing from the restaurant DataFrame.")
    ELSE LET country_code_array == CountryCodeArray(ref)
             country_mapping == CountryMapping(ref)
             df_filtered == filter_restaurants_by_country(df, country_code_array)
         IN IF \E k \in DOMAIN df_filtered :
                   CountryName(df_filtered[k].country_id, country_mapping) = NONE
            THEN DetailsError("Some country codes could not be mapped to valid country names.")
            ELSE IF {"id", "aggregate_rating"} \ df.columns # {}
            THEN DetailsError("not in index")
            ELSE IF \E k \in DOMAIN df_filtered :
                       ~IsFloat(df_filtered[k].aggregate_rating)
            THEN DetailsError("could not convert string to float")
            ELSE [status |-> "ok", message |-> "",
                  rows |-> SelectedRows(df_filtered, country_mapping, event_df)]

\* df_details = restaurant_details_processing(df_normal, df_events,
\* 'data/Country-Code.xlsx', 'output/'); the filter hands a copy on, the input
\* tables stay as they are
restaurant_details_processing ==
    /\ stage = "normalised"
    /\ df_details' = DetailsResult(restaurant_df, events_df, country_codes_df)
    /\ UNCHANGED <<json_file, country_codes_df, stage, raised, restaurant_df,
                   events_df, df_month_events, rating_result>>
    /\ UNCHANGED carpark_vars

----------------------------------------------------------------------------
(* Inputs *)

DefaultCountryCodes == <<[code |-> "1", name |-> "India"]>>

PlainEvents == <<Event("e1", Date(2019, 3, 15), Date(2019, 4, 5)),
                 Event("e2", Date(2019, 12, 31), Date(2019, 12, 31))>>

\* restaurant objects that differ in their id and in their events
FlattenRestaurants ==
    {Restaurant("r1", "1", "3.5", "Good", TRUE, <<PlainEvents[1]>>),
     Restaurant("r2", "1", "3.5", "Good", TRUE, PlainEvents),
     Restaurant(MISSING, "1", "3.5", "Good", TRUE, <<PlainEvents[2]>>),
     Restaurant("r1", "1", "3.5", "Good", FALSE, <<>>)}

\* feeds of up to MaxPages pages that hold up to MaxRestaurants restaurants
FlattenFeeds ==
    {Feed(f) : f \in
        {g \in SeqsUpTo({Page(rs) : rs \in SeqsUpTo(FlattenRestaurants,
                                                     MaxRestaurants)},
                        MaxPages) :
            Len(RestaurantsOf(g)) <= MaxRestaurants}}

----------------------------------------------------------------------------
(***************************************************************************)
(* scenario2: the interactive car park loop of main.py.                    *)
(*                                                                         *)
(* A line typed by the user and a car park number are sequences of         *)
(* one-character strings, so that strip(), lower() and upper() are         *)
(* computed.  A JSON value is a record [type, keys, size, carparks]: a     *)
(* dict with its set of keys (and, under "items", the carpark_data list),  *)
(* a list of a given size, or null.  A DataFrame is [is_none, columns,     *)
(* rows]; is_none stands for the Python value None.  refresh_mark is a     *)
(* history variable: the number of API calls made when the user last       *)
(* asked for a refresh.                                                    *)
(***************************************************************************)

MaxFetches == 3
MaxCarparks == 2

Letters == <<<<"a", "A">>, <<"b", "B">>, <<"e", "E">>, <<"i", "I">>, <<"r", "R">>, <<"s", "S">>, <<"t", "T">>, <<"x", "X">>>>

LowerChar(c) ==
    IF \E p \in DOMAIN Letters : Letters[p][2] = c
    THEN Letters[CHOOSE p \in DOMAIN Letters : Letters[p][2] = c][1]
    ELSE c

UpperChar(c) ==
    IF \E p \in DOMAIN Letters : Letters[p][1] = c
    THEN Letters[CHOOSE p \in DOMAIN Letters : Letters[p][1] = c][2]
    ELSE c

Lower(s) == [i \in DOMAIN s |-> LowerChar(s[i])]

Upper(s) == [i \in DOMAIN s |-> UpperChar(s[i])]

RECURSIVE LStrip(_)
LStrip(s) == IF s # <<>> /\ Head(s) = " " THEN LStrip(Tail(s)) ELSE s

RECURSIVE RStrip(_)
RStrip(s) ==
    IF s # <<>> /\ s[Len(s)] = " " THEN RStrip(SubSeq(s, 1, Len(s) - 1)) ELSE s

Strip(s) == RStrip(LStrip(s))

ExitWord == <<"e", "x", "i", "t">>
RefreshWord == <<"r">>
Unassigned == <<"<unassigned>">>

\* JSON values
JsonDict(keys, carparks) == [type |-> "dict", keys |-> keys, size |-> Cardinality(keys), carparks |-> carparks]
JsonList(n) == [type |-> "list", keys |-> {}, size |-> n, carparks |-> <<>>]
JsonNull == [type |-> "null", keys |-> {}, size |-> 0, carparks |-> <<>>]
EmptyDict == JsonDict({}, <<>>)
NotFetched == [type |-> "unassigned", keys |-> {}, size |-> 0, carparks |-> <<>>]

\* one entry of carpark_data; age is the number of minutes between
\* update_datetime and the moment the table is cleaned
Carpark(number, has_info, lots_available, age) == [carpark_number |-> number, has_info |-> has_info, total_lots |-> 10, lots_available |-> lots_available, age |-> age]

\* bool(value)
Truthy(value) ==
    CASE value.type = "dict" -> value.keys # {}
      [] value.type = "list" -> value.size > 0
      [] OTHER -> FALSE

\* fetch_carpark_data_from_api: the parsed body, or {} after any of the
\* exceptions it catches
fetch_carpark_data_from_api(outcome) ==
    IF outcome.kind = "ok" THEN outcome.json ELSE EmptyDict

\* DataFrames
None == [is_none |-> TRUE, columns |-> {}, rows |-> <<>>]
CarparkFrame(columns, rows) == [is_none |-> FALSE, columns |-> columns, rows |-> rows]
EmptyDataFrame == CarparkFrame({}, <<>>)

ApiColumns == {"carpark_number", "total_lots", "lots_available", "lot_type", "update_datetime"}
HdbColumns == {"car_park_no", "address", "car_park_type", "type_of_parking_system"}

RECURSIVE CarparkRows(_)
CarparkRows(carparks) ==
    IF carparks = <<>> THEN <<>>
    ELSE IF ~Head(carparks).has_info THEN CarparkRows(Tail(carparks))
    ELSE LET carpark == Head(carparks)
         IN  <<[carpark_number |-> carpark.carpark_number, total_lots |-> carpark.total_lots, lots_available |-> carpark.lots_available, age |-> carpark.age]>> \o CarparkRows(Tail(carparks))

parse_fetched_data(api_response) ==
    LET rows == CarparkRows(api_response.carparks)
    IN  IF rows = <<>> THEN EmptyDataFrame ELSE CarparkFrame(ApiColumns, rows)

RECURSIVE KeepRows(_, _)
KeepRows(rows, hdb) ==
    IF rows = <<>> THEN <<>>
    ELSE LET row == Head(rows)
             keep == /\ row.carpark_number \in hdb
                     /\ row.total_lots >= 0 /\ row.lots_available >= 0
                     /\ row.age >= 0 /\ row.age <= 15
         IN  (IF keep THEN <<row>> ELSE <<>>) \o KeepRows(Tail(rows), hdb)

\* hdb is the set of car_park_no values of the CSV file, {} when the file
\* is missing or empty
clean_carpark_data(df, hdb) ==
    IF hdb = {} THEN df
    ELSE CarparkFrame((df.columns \cup HdbColumns) \ {"car_park_no"}, KeepRows(df.rows, hdb))

\* api_response.get fails on anything but a dict
process_carpark_data(api_response, hdb) ==
    IF api_response.type # "dict" THEN EmptyDataFrame
    ELSE LET df == parse_fetched_data(api_response)
         IN  IF df.rows = <<>> THEN df ELSE clean_carpark_data(df, hdb)

RECURSIVE MatchingRows(_, _)
MatchingRows(rows, carpark_number) ==
    IF rows = <<>> THEN <<>>
    ELSE (IF Upper(Head(rows).carpark_number) = Upper(carpark_number) THEN <<Head(rows)>> ELSE <<>>) \o MatchingRows(Tail(rows), carpark_number)

\* df.columns fails on None; the except clause returns an empty DataFrame
search_carpark(df, carpark_number) ==
    IF df.is_none THEN EmptyDataFrame
    ELSE IF "carpark_number" \notin df.columns THEN EmptyDataFrame
    ELSE CarparkFrame(df.columns, MatchingRows(df.rows, carpark_number))

NoResultsMessage == "No results found."
DetailsMessage == "Car Park Number"

display_search_results(results) ==
    IF results.rows = <<>> THEN NoResultsMessage ELSE DetailsMessage

InterruptedMessage == "User interrupted the program. Exiting gracefully."

\* the test of line 93
NoData(data) == ~Truthy(data) \/ data = EmptyDict

\* line 122
RefreshKeepsTable(df) == df

Refreshed(df) == None

\* the test of line 88 at the top of the next iteration
LoopHead(df) == IF df.is_none THEN "head" ELSE "main_prompt"

InitLoop ==
    /\ loop = "head"
    /\ final_df = None
    /\ fetched_data = NotFetched
    /\ fetches = 0
    /\ user_input = Unassigned
    /\ printed = ""
    /\ search_results = None
    /\ refresh_mark = 0

\* lines 88-95: one call to the API
fetch_step(outcome) ==
    /\ loop = "head"
    /\ final_df.is_none
    /\ fetches < MaxFetches
    /\ fetches' = fetches + 1
    /\ fetched_data' = fetch_carpark_data_from_api(outcome)
    /\ IF NoData(fetched_data')
       THEN loop' = "retry_prompt" /\ printed' = "Error: No data fetched from the API."
       ELSE loop' = "processing" /\ printed' = "Fetching car park data..."
    /\ UNCHANGED <<final_df, user_input, search_results, refresh_mark>>
    /\ UNCHANGED pipeline_vars

\* lines 97-105: the answer to "Press 'R' to retry ... or 'exit' to quit"
retry_input(line) ==
    /\ loop = "retry_prompt"
    /\ user_input' = Strip(line)
    /\ IF Lower(user_input') = ExitWord
       THEN loop' = "done" /\ printed' = "Exiting the program."
       ELSE IF Lower(user_input') = RefreshWord
       THEN loop' = "head" /\ printed' = printed
       ELSE loop' = "head" /\ printed' = "Invalid input. Please enter 'R' to retry or 'exit' to quit."
    /\ UNCHANGED <<final_df, fetched_data, fetches, search_results, refresh_mark>>
    /\ UNCHANGED pipeline_vars

\* lines 107-112: process_carpark_data catches every Exception itself, so
\* the except clause of line 110 is never entered
process_step(hdb) ==
    /\ loop = "processing"
    /\ final_df' = process_carpark_data(fetched_data, hdb)
    /\ printed' = "Processing car park data..."
    /\ loop' = "main_prompt"
    /\ UNCHANGED <<fetched_data, fetches, user_input, search_results, refresh_mark>>
    /\ UNCHANGED pipeline_vars

\* lines 114-130: the answer to "Enter a car park number, 'R' ... or 'exit'"
main_input(line) ==
    /\ loop = "main_prompt"
    /\ user_input' = Strip(line)
    /\ IF Lower(user_input') = ExitWord
       THEN /\ loop' = "done"
            /\ printed' = "Exiting the program."
            /\ UNCHANGED <<final_df, search_results, refresh_mark>>
       ELSE IF Lower(user_input') = RefreshWord
       THEN /\ final_df' = Refreshed(final_df)
            /\ refresh_mark' = fetches
            /\ printed' = "Refreshing the data..."
            /\ loop' = LoopHead(final_df')
            /\ UNCHANGED search_results
       ELSE IF user_input' # <<>>
       THEN /\ search_results' = search_carpark(final_df, Upper(user_input'))
            /\ printed' = display_search_results(search_results')
            /\ loop' = LoopHead(final_df)
            /\ UNCHANGED <<final_df, refresh_mark>>
       ELSE /\ printed' = "Invalid input. Please enter a valid car park number."
            /\ loop' = LoopHead(final_df)
            /\ UNCHANGED <<final_df, search_results, refresh_mark>>
    /\ UNCHANGED <<fetched_data, fetches>>
    /\ UNCHANGED pipeline_vars

\* lines 135-137: Ctrl-C anywhere in the loop body
keyboard_interrupt ==
    /\ loop \in {"head", "processing", "retry_prompt", "main_prompt"}
    /\ loop' = "done"
    /\ printed' = InterruptedMessage
    /\ UNCHANGED <<final_df, fetched_data, fetches, user_input, search_results, refresh_mark>>
    /\ UNCHANGED pipeline_vars

InitCommon ==
    /\ stage = "fetched"
    /\ raised = ""
    /\ restaurant_df = NoFrame
    /\ events_df = NoFrame
    /\ df_details = NotRun
    /\ df_month_events = NotRun
    /\ rating_result = NotRun
    /\ InitLoop

InitFlatten ==
    /\ json_file \in FlattenFeeds
    /\ country_codes_df = DefaultCountryCodes
    /\ InitCommon

NextFlatten == normalise_data

SpecFlatten == InitFlatten /\ [][NextFlatten]_vars

\* values of the wrong shape: a feed that is no list, a page whose 'restaurants'
\* is no list, a wrapper whose 'restaurant' is no dict, a restaurant whose
\* 'zomato_events' is no list; EmptyObject is a wrapper without 'restaurant' key
NotAListFeed == [is_list |-> FALSE, pages |-> <<>>]
BadPage == [restaurants_is_list |-> FALSE, restaurants |-> <<>>]
EmptyObject ==
    [Restaurant(MISSING, MISSING, MISSING, MISSING, FALSE, <<>>) EXCEPT
        !.has_location = FALSE, !.has_user_rating = FALSE]
NotADict == [EmptyObject EXCEPT !.is_dict = FALSE]
BadEvents ==
    [Restaurant("r3", "1", "3.5", "Good", TRUE, <<>>) EXCEPT
        !.zomato_events_is_list = FALSE]

\* pages of well-shaped and ill-shaped content
ShapePages ==
    {BadPage,
     Page(<<>>),
     Page(<<Restaurant("r1", "1", "3.5", "Good", TRUE, <<PlainEvents[1]>>)>>),
     Page(<<Restaurant("r2", "1", "3.5", "Good", FALSE, <<>>), EmptyObject>>),
     Page(<<EmptyObject>>),
     Page(<<NotADict>>),
     Page(<<Restaurant("r1", "1", "3.5", "Good", TRUE, PlainEvents), NotADict>>),
     Page(<<BadEvents>>)}

\* feeds of up to MaxPages such pages, and the feed that is no list
ShapeFeeds ==
    {Feed(f) : f \in SeqsUpTo(ShapePages, MaxPages)} \cup {NotAListFeed}

InitShapes ==
    /\ json_file \in ShapeFeeds
    /\ country_codes_df = DefaultCountryCodes
    /\ InitCommon

NextShapes == normalise_data

SpecShapes == InitShapes /\ [][NextShapes]_vars

\* restaurant objects that differ in what they lack: nothing, the location
\* block, country_id inside it, the user_rating block, rating_text inside it,
\* every key; one whose id is null, one whose event has a null title, no
\* description and a null end_date, and one without id whose second event is a
\* wrapper without 'event' key
PolishRestaurants ==
    {Restaurant("r1", "1", "3.5", "Good", TRUE, <<PlainEvents[1]>>),
     [Restaurant("r2", MISSING, "3.5", "Good", FALSE, <<>>) EXCEPT
         !.has_location = FALSE],
     Restaurant("r3", MISSING, "4.5", "Excellent", FALSE, <<>>),
     [Restaurant("r4", "1", MISSING, MISSING, FALSE, <<>>) EXCEPT
         !.has_user_rating = FALSE],
     Restaurant("r5", "1", "2.5", MISSING, TRUE, <<>>),
     EmptyObject,
     Restaurant(NULL, "1", NULL, "Good", FALSE, <<>>),
     Restaurant("r6", "1", "3.5", "Good", TRUE,
                <<EventObject("e1", NULL, MISSING, Date(2019, 3, 15), NullDate,
                              MISSING, "22:00", NULL, NullPhotos)>>),
     Restaurant(MISSING, "1", "3.5", "Good", TRUE,
                <<PlainEvents[2],
                  EventObject(MISSING, MISSING, MISSING, AbsentDate, AbsentDate,
                              MISSING, MISSING, MISSING, AbsentPhotos)>>)}

\* one page of up to MaxRestaurants such restaurants
PolishFeeds ==
    {Feed(<<Page(rs)>>) : rs \in SeqsUpTo(PolishRestaurants, MaxRestaurants)}

InitPolish ==
    /\ json_file \in PolishFeeds
    /\ country_codes_df = DefaultCountryCodes
    /\ InitCommon

NextPolish == normalise_data

SpecPolish == InitPolish /\ [][NextPolish]_vars

\* one page of up to MaxRatingRows restaurants that differ in their rating label
\* and their aggregate rating; "Bueno" is a label outside the canonical five
RatingRestaurants ==
    {Restaurant("r1", "1", rating, text, FALSE, <<>>) :
        rating \in {"2.5", "3.5", "4.5", MISSING},
        text \in Range(valid_rating_categories) \cup {"Bueno"}}

RatingFeeds == {Feed(<<Page(rs)>>) : rs \in SeqsUpTo(RatingRestaurants, MaxRatingRows)}

InitRating ==
    /\ json_file \in RatingFeeds
    /\ country_codes_df = DefaultCountryCodes
    /\ InitCommon

NextRating == normalise_data \/ analyze_rating_thresholds

SpecRating == InitRating /\ [][NextRating]_vars

\* event objects that differ in their dates: well-formed ones around the month,
\* year and leap-day boundaries, a missing one, one that is no date, and one with
\* an impossible day
WindowEvents ==
    {Event("e1", Date(2019, 3, 15), Date(2019, 4, 5)),
     Event("e2", Date(2019, 12, 31), Date(2019, 12, 31)),
     Event("e3", Date(2020, 1, 1), Date(2020, 1, 2)),
     Event("e4", Date(2019, 1, 31), Date(2019, 3, 1)),
     Event("e5", Date(2020, 2, 29), Date(2020, 2, 29)),
     Event("e6", AbsentDate, Date(2019, 4, 5)),
     Event("e7", Date(2019, 3, 15), TextDate),
     Event("e8", Date(2019, 2, 30), Date(2019, 4, 5)),
     Event("e9", Date(2019, 3, 15), AbsentDate)}

\* one restaurant with up to MaxEvents events
WindowFeeds ==
    {Feed(<<Page(<<Restaurant("r1", "1", "3.5", "Good", TRUE, evs)>>)>>) :
        evs \in SeqsUpTo(WindowEvents, MaxEvents)}

InitWindow ==
    /\ json_file \in WindowFeeds
    /\ country_codes_df = DefaultCountryCodes
    /\ InitCommon

NextWindow ==
    \/ normalise_data
    \/ \E year \in Years, month \in Months : extract_event_data(year, month)

SpecWindow == InitWindow /\ [][NextWindow]_vars

\* events of March 2019 that differ in their photos: one photo, two, an empty
\* list, no photos key, a photo without url; and one of May without the key
PhotoEvents ==
    {EventObject("p1", "Brunch", "All day", Date(2019, 3, 1), Date(2019, 3, 2),
                 "10:00", "22:00", "1", ph) :
        ph \in {Photos(<<"u1">>), Photos(<<"u1", "u2">>), Photos(<<>>),
                AbsentPhotos, Photos(<<"u1", MISSING>>)}}
    \cup {EventObject("p2", "Brunch", "All day", Date(2019, 5, 1),
                      Date(2019, 5, 2), "10:00", "22:00", "1", AbsentPhotos)}

\* one restaurant with up to MaxEvents events
PhotoFeeds ==
    {Feed(<<Page(<<Restaurant("r1", "1", "3.5", "Good", TRUE, evs)>>)>>) :
        evs \in SeqsUpTo(PhotoEvents, MaxEvents)}

InitPhotos ==
    /\ json_file \in PhotoFeeds
    /\ country_codes_df = DefaultCountryCodes
    /\ InitCommon

NextPhotos ==
    \/ normalise_data
    \/ \E year \in Years, month \in Months : extract_event_data(year, month)

SpecPhotos == InitPhotos /\ [][NextPhotos]_vars

\* event lists for the detail export: absent, empty, two dated events the later
\* one first, and one event without start_date
DetailEventLists ==
    {<<>>,
     <<Event("e1", Date(2019, 4, 5), Date(2019, 4, 6)),
       Event("e2", Date(2019, 3, 15), Date(2019, 4, 5))>>,
     <<Event("e3", AbsentDate, Date(2019, 4, 5))>>}

\* restaurants that differ in id, country code and events, and two whose
\* aggregate_rating is missing
DetailRestaurants ==
    {Restaurant(id, country, "3.5", "Good", TRUE, evs) :
        id \in {"r1", "r2", MISSING}, country \in {"1", "2", MISSING},
        evs \in DetailEventLists}
    \cup {Restaurant(id, country, "3.5", "Good", FALSE, <<>>) :
        id \in {"r1", "r2", MISSING}, country \in {"1", "2", MISSING}}
    \cup {Restaurant("r1", "1", MISSING, "Good", TRUE, <<>>),
          Restaurant("r2", "2", MISSING, "Good", FALSE, <<>>)}

DetailFeeds == {Feed(<<Page(rs)>>) : rs \in SeqsUpTo(DetailRestaurants, MaxDetailRows)}

\* reference sets: without rows, one code, two codes, one code on two rows
CountryCodeFiles ==
    {<<>>,
     <<[code |-> "1", name |-> "India"]>>,
     <<[code |-> "1", name |-> "India"], [code |-> "2", name |-> "Oman"]>>,
     <<[code |-> "1", name |-> "India"], [code |-> "1", name |-> "Bharat"]>>}

InitDetail ==
    /\ json_file \in DetailFeeds
    /\ country_codes_df \in CountryCodeFiles
    /\ InitCommon

NextDetail == normalise_data \/ restaurant_details_processing

SpecDetail == InitDetail /\ [][NextDetail]_vars

\* the three stages called in any order, any number of times, on the tables of
\* one feed
PipelineRestaurants ==
    {Restaurant("r1", "1", "3.5", "Good", TRUE,
                <<Event("e1", Date(2019, 4, 5), Date(2019, 4, 6)),
                  Event("e2", Date(2019, 3, 15), Date(2019, 4, 5))>>),
     Restaurant("r2", "1", "2.5", "Bueno", TRUE,
                <<Event("e3", AbsentDate, Date(2019, 4, 5))>>),
     Restaurant("r2", "2", MISSING, "Poor", FALSE, <<>>),
     Restaurant("r1", "1", "4.5", "Excellent", TRUE,
                <<Event("e4", Date(2019, 12, 31), Date(2020, 1, 1))>>)}

PipelineFeeds == {Feed(<<Page(rs)>>) : rs \in [{1, 2} -> PipelineRestaurants]}

InitPipeline ==
    /\ json_file \in PipelineFeeds
    /\ country_codes_df \in CountryCodeFiles
    /\ InitCommon

Next ==
    \/ normalise_data
    \/ restaurant_details_processing
    \/ \E year \in Years, month \in Months : extract_event_data(year, month)
    \/ analyze_rating_thresholds

Spec == InitPipeline /\ [][Next]_vars

----------------------------------------------------------------------------
(* C1 *)

\* C1: every row of the Events table carries, as restaurant_res_id, the id of
\* the restaurant object whose zomato_events list contained the event: the
\* row's event is the pos-th event of the owner-th restaurant of the feed, and
\* its key is that restaurant's id (the marker when the object has no id), which
\* is also the id cell of the owner's row in the Restaurants table.
C1_ForeignKey ==
    stage = "normalised" =>
        \A k \in DOMAIN events_df.rows :
            LET e == events_df.rows[k]
                rl == RestaurantList(json_file)
            IN /\ e.owner \in DOMAIN rl
               /\ rl[e.owner].has_zomato_events
               /\ e.pos \in DOMAIN rl[e.owner].zomato_events
               /\ e.event_id = rl[e.owner].zomato_events[e.pos].event_id
               /\ e.restaurant_res_id =
                    (IF rl[e.owner].id = MISSING THEN NA ELSE rl[e.owner].id)
               /\ e.restaurant_res_id = restaurant_df.rows[e.owner].id

\* two restaurants with different ids on different pages, each with an event
C1_Witness ==
    /\ stage = "normalised"
    /\ \E j, k \in DOMAIN events_df.rows :
          /\ events_df.rows[j].restaurant_res_id = "r1"
          /\ events_df.rows[k].restaurant_res_id = "r2"
          /\ events_df.rows[j].owner > events_df.rows[k].owner
    /\ Len(json_file.pages) > 1
    /\ \A p \in DOMAIN json_file.pages : json_file.pages[p].restaurants # <<>>

----------------------------------------------------------------------------
(* C2 - C5: the rating analysis, whenever it returns its three tables *)

\* the canonical records of the input that carry label text, and the bounds of
\* their aggregate ratings, taken from the input table itself
CanonicalRatings(text) ==
    {FloatOf(restaurant_df.rows[i].aggregate_rating) :
        i \in {j \in DOMAIN restaurant_df.rows :
                 restaurant_df.rows[j].rating_text = text}}

InRange(text, rating) ==
    /\ CanonicalRatings(text) # {}
    /\ \E lo, hi \in CanonicalRatings(text) :
          /\ \A x \in CanonicalRatings(text) : lo <= x /\ x <= hi
          /\ lo <= rating /\ rating <= hi

Canonical == Range(valid_rating_categories)

\* C2: a mapped record's aggregate_rating lies in the closed range of the label
\* it was mapped to, and an unmapped record's aggregate_rating lies in the range
\* of no canonical label.
C2_MappedInRange ==
    rating_result.status = "ok" =>
        /\ \A i \in DOMAIN rating_result.mapped :
              LET r == rating_result.mapped[i]
              IN /\ r.mapped_rating_text \in Canonical
                 /\ InRange(r.mapped_rating_text, FloatOf(r.aggregate_rating))
        /\ \A i \in DOMAIN rating_result.unmapped :
              \A text \in Canonical :
                 ~InRange(text, FloatOf(rating_result.unmapped[i].aggregate_rating))

\* a record mapped on the boundary of a label's range, next to a record that no
\* range contains
C2_Witness ==
    /\ rating_result.status = "ok"
    /\ rating_result.unmapped # <<>>
    /\ \E i \in DOMAIN rating_result.mapped :
          \E k \in DOMAIN rating_result.category_stats :
             LET c == rating_result.category_stats[k]
             IN /\ c.rating_text = rating_result.mapped[i].mapped_rating_text
                /\ FloatOf(rating_result.mapped[i].aggregate_rating) = c.max

\* C3: when the ranges of several canonical labels contain a record's
\* aggregate_rating, the record is mapped to the one that comes first in the
\* order Poor, Average, Good, Very Good, Excellent.
C3_LowerLabelWins ==
    rating_result.status = "ok" =>
        \A i \in DOMAIN rating_result.mapped :
            LET r == rating_result.mapped[i]
            IN \A text \in Canonical :
                  InRange(text, FloatOf(r.aggregate_rating)) =>
                     CategoryCode(r.mapped_rating_text) <= CategoryCode(text)

\* a mapped record whose rating lies in the ranges of two labels
C3_Witness ==
    /\ rating_result.status = "ok"
    /\ \E i \in DOMAIN rating_result.mapped :
          Cardinality({text \in Canonical :
              InRange(text, FloatOf(rating_result.mapped[i].aggregate_rating))}) > 1

\* C4: the threshold table has one row per canonical label that occurs in the
\* input and none for any other label, its rows are in the order Poor, Average,
\* Good, Very Good, Excellent, and every row has min <= max and
\* range = max - min.
C4_ThresholdTable ==
    rating_result.status = "ok" =>
        LET t == rating_result.category_stats
        IN /\ {t[k].rating_text : k \in DOMAIN t} =
                {text \in Canonical :
                    \E i \in DOMAIN restaurant_df.rows :
                        restaurant_df.rows[i].rating_text = text}
           /\ \A j, k \in DOMAIN t :
                 j < k => CategoryCode(t[j].rating_text) < CategoryCode(t[k].rating_text)
           /\ \A k \in DOMAIN t :
                 t[k].min <= t[k].max /\ t[k].range = t[k].max - t[k].min

\* a table with the rows Poor and Average, which groupby yields in the other
\* order, one of them of positive width
C4_Witness ==
    /\ rating_result.status = "ok"
    /\ Len(rating_result.category_stats) > 1
    /\ rating_result.category_stats[1].rating_text = "Poor"
    /\ \E k \in DOMAIN rating_result.category_stats :
          rating_result.category_stats[k].range > 0

Indexes(rows) == {rows[i].index : i \in DOMAIN rows}

\* C5: the mapped and the unmapped output share no record, hold every record
\* whose rating_text is not canonical exactly once and no canonical record; with
\* no canonical record in the input every non-canonical record is unmapped.
C5_Partition ==
    rating_result.status = "ok" =>
        LET m == rating_result.mapped
            u == rating_result.unmapped
            noncanonical == {i \in DOMAIN restaurant_df.rows :
                                restaurant_df.rows[i].rating_text \notin Canonical}
        IN /\ Indexes(m) \cap Indexes(u) = {}
           /\ Indexes(m) \cup Indexes(u) = noncanonical
           /\ Cardinality(Indexes(m)) = Len(m)
           /\ Cardinality(Indexes(u)) = Len(u)
           /\ \A i \in DOMAIN m :
                 m[i].rating_text = restaurant_df.rows[m[i].index].rating_text
           /\ \A i \in DOMAIN u :
                 u[i].rating_text = restaurant_df.rows[u[i].index].rating_text
           /\ (noncanonical = DOMAIN restaurant_df.rows) => m = <<>>

\* a mapped record, an unmapped record and a "Very Good" record in one input
C5_Witness ==
    /\ rating_result.status = "ok"
    /\ rating_result.mapped # <<>>
    /\ rating_result.unmapped # <<>>
    /\ \E i \in DOMAIN restaurant_df.rows :
          restaurant_df.rows[i].rating_text = "Very Good"

\* with no canonical record at all, the non-canonical records are all unmapped
C5_WitnessNoCanonical ==
    /\ rating_result.status = "ok"
    /\ rating_result.category_stats = <<>>
    /\ Len(rating_result.unmapped) > 1

----------------------------------------------------------------------------
(* C6, C7: the Event Window Filter *)

\* the cell is a string that names a day of the calendar
WellFormed(c) ==
    c.kind = "ymd" /\ c.m \in 1..12 /\ c.d \in 1..DaysInMonth(c.y, c.m)

\* day a is on or before day b, compared as (year, month, day)
DayLeq(a, b) ==
    \/ a.y < b.y
    \/ a.y = b.y /\ a.m < b.m
    \/ a.y = b.y /\ a.m = b.m /\ a.d <= b.d

FirstDay(year, month) == Date(year, month, 1)
LastDay(year, month) == Date(year, month, DaysInMonth(year, month))

\* the events of the feed, in the order of the Events table
FeedEvents == EventsList(json_file)

Overlaps(e, year, month) ==
    /\ DayLeq(e.start_date, LastDay(year, month))
    /\ DayLeq(FirstDay(year, month), e.end_date)

IncludedIndexes == {df_month_events.month_events[k].index :
                       k \in DOMAIN df_month_events.month_events}

FilterRan == df_month_events.status # "none" /\ df_month_events.filtered

\* C6: for the window (year, month) the filter returns an event with well-formed
\* dates exactly when start_date <= last day of the month and end_date >= first
\* day of the month, the last day of December being 31 December of that year;
\* the event 2019-03-15 .. 2019-04-05 is returned for 2019-03 and 2019-04 and
\* not for 2019-05.
C6_MonthOverlap ==
    FilterRan =>
        /\ \A k \in DOMAIN FeedEvents :
              (WellFormed(FeedEvents[k].start_date) /\ WellFormed(FeedEvents[k].end_date))
              => (k \in IncludedIndexes <=>
                    Overlaps(FeedEvents[k], df_month_events.year, df_month_events.month))
        /\ \A k \in DOMAIN FeedEvents :
              (/\ FeedEvents[k].start_date = Date(2019, 3, 15)
               /\ FeedEvents[k].end_date = Date(2019, 4, 5)
               /\ df_month_events.year = 2019)
              => /\ df_month_events.month \in {3, 4} => k \in IncludedIndexes
                 /\ df_month_events.month = 5 => k \notin IncludedIndexes

\* the window December 2019 with an event of 31 December returned and an event
\* that starts on 1 January 2020 left out
C6_Witness ==
    /\ FilterRan
    /\ df_month_events.year = 2019 /\ df_month_events.month = 12
    /\ \E j, k \in DOMAIN FeedEvents :
          /\ FeedEvents[j].start_date = Date(2019, 12, 31)
          /\ j \in IncludedIndexes
          /\ FeedEvents[k].start_date = Date(2020, 1, 1)
          /\ k \notin IncludedIndexes

RECURSIVE IndexesOf(_)
IndexesOf(rows) ==
    IF rows = <<>> THEN <<>> ELSE <<Head(rows).index>> \o IndexesOf(Tail(rows))

\* the indexes 1..n of the events that have well-formed dates and overlap the
\* window, in increasing order
RECURSIVE ExpectedFrom(_, _, _)
ExpectedFrom(k, year, month) ==
    IF k > Len(FeedEvents) THEN <<>>
    ELSE (IF /\ WellFormed(FeedEvents[k].start_date)
             /\ WellFormed(FeedEvents[k].end_date)
             /\ Overlaps(FeedEvents[k], year, month)
          THEN <<k>> ELSE <<>>) \o ExpectedFrom(k + 1, year, month)

\* C7: an event whose start_date or end_date is malformed or the marker is in
\* the result for no window; the filter still returns, and what it returns is
\* what the events with well-formed dates alone determine.
C7_MalformedExcluded ==
    (df_month_events.status # "none" /\ ~Empty(events_df) /\ ~Empty(restaurant_df)) =>
        /\ df_month_events.filtered
        /\ \A k \in IncludedIndexes :
              WellFormed(FeedEvents[k].start_date) /\ WellFormed(FeedEvents[k].end_date)
        /\ IndexesOf(df_month_events.month_events) =
              ExpectedFrom(1, df_month_events.year, df_month_events.month)
        /\ df_month_events.status = "error" =>
              df_month_events.month_events = <<>> \/ "id" \notin restaurant_df.columns

\* an event whose start_date is missing, no date or an impossible day is left
\* out of a window that its end_date reaches, and another event of the same
\* feed is returned
C7_Witness ==
    /\ FilterRan
    /\ df_month_events.status = "ok"
    /\ \E k \in DOMAIN FeedEvents :
          /\ ~WellFormed(FeedEvents[k].start_date)
          /\ WellFormed(FeedEvents[k].end_date)
          /\ DayLeq(FirstDay(df_month_events.year, df_month_events.month),
                    FeedEvents[k].end_date)
          /\ k \notin IncludedIndexes

----------------------------------------------------------------------------
(* C8 - C10: the Detail Projector *)

FeedRestaurants == RestaurantList(json_file)

RefCodes == {country_codes_df[k].code : k \in DOMAIN country_codes_df}

\* the restaurants whose country code is in the reference set
InReference == {i \in DOMAIN FeedRestaurants : FeedRestaurants[i].country_id \in RefCodes}

IdCell(i) == IF FeedRestaurants[i].id = MISSING THEN NA ELSE FeedRestaurants[i].id

\* the start_date cells of the Events whose restaurant_res_id equals the id of
\* restaurant i
MatchingStarts(i) ==
    {FeedEvents[k].start_date :
        k \in {j \in DOMAIN FeedEvents : IdCell(FeedEvents[j].owner) = IdCell(i)}}

OwnEvents(i) ==
    FeedRestaurants[i].has_zomato_events /\ FeedRestaurants[i].zomato_events # <<>>

Numeric(rating) == rating \in {"2.5", "3.5", "4.5"}

\* the inputs on which the Detail Projector writes an export
ExportConditions ==
    /\ FeedRestaurants # <<>>
    /\ FeedEvents # <<>>
    /\ \E i \in DOMAIN FeedRestaurants : FeedRestaurants[i].id # MISSING
    /\ \E i \in DOMAIN FeedRestaurants : FeedRestaurants[i].country_id # MISSING
    /\ \E i \in DOMAIN FeedRestaurants : FeedRestaurants[i].aggregate_rating # MISSING
    /\ \A i \in InReference : Numeric(FeedRestaurants[i].aggregate_rating)

DetailRow(i) ==
    df_details.rows[CHOOSE k \in DOMAIN df_details.rows : df_details.rows[k].index = i]

C9_CountryFilter ==
    df_details.status # "none" =>
        /\ df_details.status = "ok" =>
              /\ \A i \in DOMAIN FeedRestaurants :
                    i \in Indexes(df_details.rows) <=> i \in InReference
              /\ \A k \in DOMAIN df_details.rows :
                    \E j \in DOMAIN country_codes_df :
                       /\ country_codes_df[j].code =
                            FeedRestaurants[df_details.rows[k].index].country_id
                       /\ country_codes_df[j].name = df_details.rows[k].country
        /\ df_details.status = "error" => ~ExportConditions

\* an export that keeps a restaurant and drops one whose code the reference
\* set lacks and whose rating is missing
C9_Witness ==
    /\ df_details.status = "ok"
    /\ df_details.rows # <<>>
    /\ \E i \in DOMAIN FeedRestaurants :
          /\ i \notin InReference
          /\ FeedRestaurants[i].country_id # MISSING
          /\ FeedRestaurants[i].aggregate_rating = MISSING

\* C10: with a reference set that has no rows the Detail Projector ends in an
\* error and writes no export.
C10_EmptyReferenceIsError ==
    (df_details.status # "none" /\ country_codes_df = <<>>) =>
        df_details.status = "error"

----------------------------------------------------------------------------
(* Claims about the photo URL field of the event window export *)

\* the event object of the feed behind row k of the Events table
RawEvent(k) == FeedRestaurants[FeedEvents[k].owner].zomato_events[FeedEvents[k].pos]

\* the photo URL field the export is to carry for a raw 'photos' value
ClaimedPhotoUrl(photos) ==
    IF photos.kind = "list" /\ photos.urls # <<>>
    THEN JoinComma([k \in DOMAIN photos.urls |-> Get(photos.urls[k])])
    ELSE <<NA>>

\* C11: when the overlap filter selects events, extract_event_data does not
\* fail on their photos and the export has, for every selected event, a row
\* whose photo URL field is the comma-joined list of the event's photo URLs, or
\* the marker when the event has an empty photos list or no photos key.
C11_PhotoUrls ==
    (/\ FilterRan
     /\ df_month_events.month_events # <<>>
     /\ "id" \in restaurant_df.columns) =>
        /\ df_month_events.status = "ok"
        /\ \A i \in IncludedIndexes :
              \E k \in DOMAIN df_month_events.rows :
                 /\ df_month_events.rows[k].index = i
                 /\ df_month_events.rows[k].photo_url =
                      ClaimedPhotoUrl(RawEvent(i).photos)

----------------------------------------------------------------------------
(* Claims about the error outcomes of extract_event_data *)

\* the window of the last call selects no row of the Events table
NothingMatched ==
    filter_events_by_month(events_df, df_month_events.year,
                           df_month_events.month) = <<>>

EmptyInput == Empty(events_df) \/ Empty(restaurant_df)

\* the error text in the printed report of the last call, "" when none
PrintedText ==
    IF Printed(df_month_events) = <<>> THEN ""
    ELSE Printed(df_month_events)[2]

\* C12: with an empty Events or Restaurants table extract_event_data ends in an
\* error outcome without export, and so it does when the window selects no
\* event; each outcome is reported by a printed text, and the text tells the
\* empty-input outcome from the nothing-matched outcome.
C12_ErrorOutcomes ==
    df_month_events.status # "none" =>
        /\ (EmptyInput \/ NothingMatched) =>
              /\ df_month_events.status = "error"
              /\ df_month_events.rows = <<>>
              /\ ReturnValue(df_month_events).kind = "None"
              /\ Printed(df_month_events) # <<>>
        /\ EmptyInput <=>
              PrintedText \in {EmptyEventsMessage, EmptyRestaurantsMessage}
        /\ (~EmptyInput /\ NothingMatched) <=> PrintedText = NoEventsMessage

\* a window without any event on a table that has events
C12_Witness ==
    /\ df_month_events.status = "error"
    /\ events_df.rows # <<>>
    /\ NothingMatched
    /\ df_month_events.message = NoEventsMessage

\* a call on an empty Events table
C12_WitnessEmpty ==
    /\ df_month_events.status = "error"
    /\ Empty(events_df)
    /\ df_month_events.message = EmptyEventsMessage

\* what extract_event_data hands to its caller when the Events table is empty
ReturnOnEmptyInput ==
    ReturnValue(EventsResult("error", EmptyEventsMessage, df_month_events.year,
                             df_month_events.month, FALSE, <<>>, <<>>))

\* C12 as stated: both outcomes are error outcomes without export, and the
\* caller can tell them apart, that is, what the call returns in the
\* nothing-matched outcome differs from what it returns on an empty input.
C12_CallerDistinguishes ==
    df_month_events.status # "none" =>
        /\ (EmptyInput \/ NothingMatched) =>
              /\ df_month_events.status = "error"
              /\ df_month_events.rows = <<>>
        /\ (~EmptyInput /\ NothingMatched) =>
              ReturnValue(df_month_events) # ReturnOnEmptyInput

----------------------------------------------------------------------------
(* Claim about a rating that is not a number *)

\* the rows of the Restaurants table whose aggregate_rating float() rejects
NonNumericRows ==
    {i \in DOMAIN restaurant_df.rows :
        ~IsFloat(restaurant_df.rows[i].aggregate_rating)}

\* the Restaurants table without the rows of the set skip
WithoutRows(df, skip) ==
    [columns |-> df.columns,
     rows |-> SelectSeq(df.rows, LAMBDA r : r.index \notin skip)]

\* C13: when exactly one record has an aggregate_rating that is not a number
\* (the marker of a missing rating included), analyze_rating_thresholds still
\* returns, and its threshold table and mapped/unmapped outputs are those of
\* the remaining records.
C13_BadRecordExcluded ==
    (/\ rating_result.status # "none"
     /\ {"rating_text", "aggregate_rating"} \subseteq restaurant_df.columns
     /\ Cardinality(NonNumericRows) = 1) =>
        /\ rating_result.status = "ok"
        /\ rating_result = RatingOutput(WithoutRows(restaurant_df, NonNumericRows))

----------------------------------------------------------------------------
(* Claims about the tables normalise_data returns *)

\* the wrappers of the feed's pages
Wrappers ==
    UNION {Range(json_file.pages[p].restaurants) : p \in DOMAIN json_file.pages}

\* one of the three shape defects C14 names
ShapeDefect ==
    \/ ~json_file.is_list
    \/ \E p \in DOMAIN json_file.pages : ~json_file.pages[p].restaurants_is_list
    \/ \E w \in Wrappers : ~w.is_dict

EventsAreLists ==
    \A w \in Wrappers : w.has_zomato_events => w.zomato_events_is_list

C14_WitnessReturned ==
    /\ stage = "normalised"
    /\ Len(json_file.pages) > 1
    /\ restaurant_df.rows # <<>>
    /\ events_df.rows # <<>>

\* the columns of the Restaurants table whose cells are strings, and the values
\* that are no value: the null cell, a null and an absent key
StringColumns == {"id", "country_id", "aggregate_rating", "rating_text"}
NoValue == {NaN, NULL, MISSING}

EventStringColumns ==
    {"event_id", "title", "description", "start_time", "end_time",
     "event_category", "restaurant_res_id"}

\* C15: after normalise_data returns, no cell of the Restaurants table and no
\* cell of the Events table is null or absent, no embedded column is left, and
\* a field the source lacks (sub-fields of location and user_rating that only
\* some records carry included) holds the marker.
C15_NoNullCell ==
    stage = "normalised" =>
        /\ restaurant_df.columns \subseteq StringColumns \cup {"zomato_events"}
        /\ \A i \in DOMAIN restaurant_df.rows :
              /\ \A c \in restaurant_df.columns \cap StringColumns :
                    /\ restaurant_df.rows[i][c] \notin NoValue
                    /\ FeedRestaurants[i][c] \in NoValue =>
                          restaurant_df.rows[i][c] = NA
              /\ "zomato_events" \in restaurant_df.columns =>
                    /\ restaurant_df.rows[i].zomato_events_kind \in {"list", "NA"}
                    /\ ~FeedRestaurants[i].has_zomato_events =>
                          restaurant_df.rows[i].zomato_events_kind = "NA"
        /\ \A k \in DOMAIN events_df.rows :
              /\ \A c \in EventStringColumns :
                    /\ events_df.rows[k][c] \notin NoValue
                    /\ c # "restaurant_res_id" /\ RawEvent(k)[c] \in NoValue =>
                          events_df.rows[k][c] = NA
              /\ \A c \in {"start_date", "end_date"} :
                    /\ events_df.rows[k][c].kind \notin {"absent", "null"}
                    /\ RawEvent(k)[c].kind \in {"absent", "null"} =>
                          events_df.rows[k][c] = NADate
              /\ events_df.rows[k].photos.kind \in {"list", "NA"}

\* a table in which one record carries country_id and another has no location
\* block, and an event with a null title
C15_Witness ==
    /\ stage = "normalised"
    /\ "country_id" \in restaurant_df.columns
    /\ \E i, j \in DOMAIN FeedRestaurants :
          /\ ~FeedRestaurants[i].has_location
          /\ FeedRestaurants[j].country_id = "1"
          /\ restaurant_df.rows[i].country_id = NA
    /\ \E k \in DOMAIN events_df.rows :
          RawEvent(k).title = NULL /\ events_df.rows[k].title = NA

\* the ten fields of an Events row
TenFields ==
    {"event_id", "title", "description", "start_date", "end_date", "start_time",
     "end_time", "event_category", "photos", "restaurant_res_id"}

\* the cell a field of a raw object is to give: the marker when the object
\* lacks the key (or carries null), else the value
MarkerOr(v) == IF v \in {MISSING, NULL} THEN NA ELSE v
MarkerOrDate(v) == IF v.kind \in {"absent", "null"} THEN NADate ELSE v
MarkerOrPhotos(v) == IF v.kind \in {"absent", "null"} THEN NAPhotos ELSE v

\* C16: every row of the Events table has the ten fields event_id, title,
\* description, start_date, end_date, start_time, end_time, event_category,
\* photos and restaurant_res_id, which are the table's columns; a field the
\* source event object lacks holds the marker, any other its value.
C16_TenFields ==
    stage = "normalised" =>
        /\ events_df.rows # <<>> => events_df.columns = TenFields
        /\ \A k \in DOMAIN events_df.rows :
              LET row == events_df.rows[k]
              IN /\ TenFields \subseteq DOMAIN row
                 /\ \A c \in {"event_id", "title", "description", "start_time",
                              "end_time", "event_category"} :
                       row[c] = MarkerOr(RawEvent(k)[c])
                 /\ row.start_date = MarkerOrDate(RawEvent(k).start_date)
                 /\ row.end_date = MarkerOrDate(RawEvent(k).end_date)
                 /\ row.photos = MarkerOrPhotos(RawEvent(k).photos)
                 /\ row.restaurant_res_id = MarkerOr(FeedRestaurants[row.owner].id)

\* an Events table with a complete event and one whose wrapper has no 'event'
C16_Witness ==
    /\ stage = "normalised"
    /\ \E j, k \in DOMAIN events_df.rows :
          /\ RawEvent(j).title = "Brunch"
          /\ RawEvent(k).title = MISSING
          /\ RawEvent(k).photos = AbsentPhotos
          /\ events_df.rows[k].description = NA

\* C17: in the Restaurants table normalise_data returns, no two rows have the
\* same id, also when a restaurant object occurs on more than one page or has
\* no id.
C17_UniqueIds ==
    (stage = "normalised" /\ "id" \in restaurant_df.columns) =>
        \A i, j \in DOMAIN restaurant_df.rows :
           i # j => restaurant_df.rows[i].id # restaurant_df.rows[j].id

----------------------------------------------------------------------------
(* Claims about the stages run one after another on the same tables *)

\* C18: a call of restaurant_details_processing, extract_event_data or
\* analyze_rating_thresholds leaves the Restaurants and the Events table as
\* they were: every cell keeps its value and its type, no column is added.
C18_InputsUnchanged ==
    [][stage = "normalised" =>
          /\ restaurant_df' = restaurant_df
          /\ events_df' = events_df]_vars

\* C19: the Schema Polisher steps (expand location, expand user_rating, drop
\* the embedded columns, fill the nulls) applied to the Restaurants table that
\* normalise_data returned give that table again.
C19_PolishIdempotent ==
    stage = "normalised" => Polish(restaurant_df) = restaurant_df

\* a polished table of two rows whose sub-fields came out of the embedded
\* blocks, one of them filled with the marker
C19_Witness ==
    /\ stage = "normalised"
    /\ {"country_id", "aggregate_rating", "rating_text"} \subseteq
          restaurant_df.columns
    /\ \E i, j \in DOMAIN restaurant_df.rows :
          /\ restaurant_df.rows[i].country_id = "1"
          /\ restaurant_df.rows[j].country_id = NA
          /\ restaurant_df.rows[i].location = LocationDropped

\* C20: on the tables of one feed, the outcome of each downstream stage is the
\* one it gives on the tables as normalise_data returned them, whatever stages
\* ran before and however often: restaurant_details_processing after
\* extract_event_data, extract_event_data for a window after another window,
\* analyze_rating_thresholds after either.
C20_OrderIndependent ==
    stage = "normalised" =>
        /\ df_details.status # "none" =>
              df_details = DetailsResult(RestaurantFrame(json_file),
                                         EventsFrame(json_file), country_codes_df)
        /\ df_month_events.status # "none" =>
              df_month_events = ExtractResult(EventsFrame(json_file),
                                              RestaurantFrame(json_file),
                                              df_month_events.year,
                                              df_month_events.month)
        /\ rating_result.status # "none" =>
              rating_result = (IF RatingRaises(RestaurantFrame(json_file))
                               THEN RatingError
                               ELSE RatingOutput(RestaurantFrame(json_file)))

\* the part of C20 that holds: the outcome of extract_event_data for a window
\* does not depend on earlier calls
C20_WindowRepeatable ==
    (stage = "normalised" /\ df_month_events.status # "none") =>
        df_month_events = ExtractResult(EventsFrame(json_file),
                                        RestaurantFrame(json_file),
                                        df_month_events.year,
                                        df_month_events.month)

----------------------------------------------------------------------------
(* scenario2: inputs and specification of main_loop *)

A1 == <<"A", "1">>
B2 == <<"B", "2">>

\* the carpark_data list the API serves; a response carries a window of it
CarparkEntries ==
    <<Carpark(A1, TRUE, 5, 5),
      Carpark(<<"a", "1">>, TRUE, 7, 5),
      Carpark(A1, FALSE, 0, 5),
      Carpark(B2, TRUE, 3, 20),
      Carpark(B2, TRUE, -1, 5),
      Carpark(<<"X", "9">>, TRUE, 1, 5)>>

CarparkLists ==
    {<<>>} \cup {SubSeq(CarparkEntries, w[1], w[2]) :
                    w \in {v \in (DOMAIN CarparkEntries) \X (DOMAIN CarparkEntries) :
                              v[2] >= v[1] /\ v[2] < v[1] + MaxCarparks}}

JsonBodies ==
    {EmptyDict, JsonNull, JsonList(0), JsonList(1), JsonDict({"message"}, <<>>)}
        \cup {JsonDict({"items"}, cs) : cs \in CarparkLists}

FetchOutcomes ==
    {[kind |-> k, json |-> JsonNull] :
        k \in {"timeout", "connection", "http", "request", "invalid_json"}}
        \cup {[kind |-> "ok", json |-> j] : j \in JsonBodies}

HdbFiles == {{}, {A1, B2}}

UserInputs ==
    {<<"e", "x", "i", "t">>, <<"E", "x", "i", "T">>, <<" ", "e", "x", "i", "t", " ">>,
     <<"e", "x", "i", "t", "s">>,
     <<"r">>, <<"R">>, <<" ", "R">>, <<"r", "r">>,
     <<>>, <<" ">>,
     <<"a", "1">>, <<"A", "1">>, <<"b", "2">>, <<"x", "9">>}

InitCarpark ==
    /\ json_file = Feed(<<>>)
    /\ country_codes_df = DefaultCountryCodes
    /\ InitCommon

NextCarpark ==
    \/ \E outcome \in FetchOutcomes : fetch_step(outcome)
    \/ \E line \in UserInputs : retry_input(line)
    \/ \E hdb \in HdbFiles : process_step(hdb)
    \/ \E line \in UserInputs : main_input(line)
    \/ keyboard_interrupt

SpecCarpark == InitCarpark /\ [][NextCarpark]_vars

----------------------------------------------------------------------------
(* C21 *)

Prompts == {"retry_prompt", "main_prompt"}

\* a step of main_loop that read a line at a prompt
InputStep == loop \in Prompts /\ printed' # InterruptedMessage

\* a step that ran search_carpark and displayed what it returned
SearchStep ==
    /\ loop = "main_prompt"
    /\ printed' \in {NoResultsMessage, DetailsMessage}

\* a response that is not empty: a dict with a key, a list with an element
HoldsData(data) == data.type \in {"dict", "list"} /\ data.size > 0

\* the table in final_df was built from the response of the latest call
BuiltFromLatestFetch ==
    /\ ~final_df.is_none
    /\ HoldsData(fetched_data)
    /\ \E hdb \in HdbFiles : final_df = process_carpark_data(fetched_data, hdb)

\* a search uses a table built from a response that held data
SearchOnFetchedTable ==
    SearchStep =>
        /\ BuiltFromLatestFetch
        /\ search_results' = search_carpark(final_df, Upper(user_input'))

\* the table a search uses was fetched and built after the last 'R'
SearchAfterRefetch ==
    /\ SearchStep => fetches > refresh_mark
    /\ (loop = "main_prompt" /\ InputStep /\ Lower(user_input') = RefreshWord)
          => final_df'.is_none /\ loop' = "head" /\ refresh_mark' = fetches

\* a call that returned no data leads to the retry prompt, and from there
\* only to another call or to the end
NothingOnEmptyFetch ==
    /\ (fetches' # fetches /\ ~HoldsData(fetched_data'))
          => loop' = "retry_prompt" /\ final_df'.is_none
    /\ loop = "retry_prompt"
          => /\ loop' \in {"head", "done"}
             /\ final_df'.is_none
             /\ search_results' = search_results
             /\ printed' \notin {"Processing car park data...", NoResultsMessage, DetailsMessage}
    /\ loop' = "processing" => fetches' # fetches /\ HoldsData(fetched_data')
    /\ final_df' # final_df /\ ~final_df'.is_none => loop = "processing"

\* 'exit' at either prompt ends the loop, and nothing runs after the end
ExitEndsLoop ==
    /\ (InputStep /\ Lower(user_input') = ExitWord)
          => /\ loop' = "done"
             /\ UNCHANGED <<final_df, fetched_data, fetches, search_results>>
    /\ loop # "done"

\* C21: in main_loop, whatever the user types and whatever the API answers,
\* a search runs only on a table built from a fetch that returned data;
\* after 'R' no search runs before a new fetch and processing; a fetch that
\* returns no data is followed by no processing and no search; and 'exit'
\* at either prompt ends the loop.
C21_MainLoop ==
    [][/\ SearchOnFetchedTable
       /\ SearchAfterRefetch
       /\ NothingOnEmptyFetch
       /\ ExitEndsLoop]_vars

\* the user refreshed, the next call returned no data, a later call did, and
\* a search on the new table found the car park
C21_Witness ==
    /\ refresh_mark >= 1
    /\ fetches >= refresh_mark + 2
    /\ printed = DetailsMessage
    /\ search_results.rows # <<>>
    /\ loop = "main_prompt"

====
